---- MODULE Spec2Model ----
(***************************************************************************)
(* Hotel / customer / reservation service of reservation_system.py.        *)
(* The persisted state is the three JSON files of DataStore; every service *)
(* operation of ReservationSystem is one action: it loads the three files, *)
(* validates, computes the new lists and saves them.                       *)
(***************************************************************************)
EXTENDS Integers, Sequences, FiniteSets, TLC

VARIABLES hotelsFile, customersFile, reservationsFile, issued, op, result, saved, log,
          calls

vars == <<hotelsFile, customersFile, reservationsFile, issued, op, result, saved, log,
          calls>>

files == <<hotelsFile, customersFile, reservationsFile>>

(***************************************************************************)
(* Bounds of the model.                                                    *)
(***************************************************************************)
\* how many hotels, customers and reservations are created in one behaviour
MaxHotels == 2

MaxCustomers == 1

MaxReservations == 2
\* largest room count a caller passes as a hotel's total_rooms
MaxRooms == 2

(***************************************************************************)
(* Identifiers.  str(uuid.uuid4()) is a string never handed out before;    *)
(* the model names the n-th identifier handed out by create_hotel "h<n>",  *)
(* by create_customer "c<n>" and by create_reservation "r<n>".             *)
(***************************************************************************)
Digits == <<"0", "1", "2", "3", "4", "5", "6", "7", "8", "9">>

RECURSIVE NatToStr(_)
NatToStr(n) ==
    IF n < 10 THEN Digits[n + 1] ELSE NatToStr(n \div 10) \o Digits[(n % 10) + 1]

\* "%d" % i, str(i)
IntToStr(i) == IF i < 0 THEN "-" \o NatToStr(-i) ELSE NatToStr(i)

uuid4(prefix, count) == prefix \o NatToStr(count + 1)

IssuedIds(prefix, count) == {prefix \o NatToStr(n) : n \in 1..count}

(***************************************************************************)
(* Inputs of the callers.                                                  *)
(***************************************************************************)
\* identifiers a caller passes: every identifier handed out so far for that
\* kind of record, and one that was never handed out
HotelIdInputs == IssuedIds("h", issued.hotels) \cup {"no-such-id"}

CustomerIdInputs == IssuedIds("c", issued.customers) \cup {"no-such-id"}

ReservationIdInputs == IssuedIds("r", issued.reservations) \cup {"no-such-id"}

HotelRoomInputs == 0..MaxRooms

ReservationRoomInputs == 0..(MaxRooms + 1)

\* an Optional[...] argument: <<>> is None, <<v>> is the value v
Optional(S) == {<<>>} \cup {<<v>> : v \in S}

NewNames == {" Azure Inn "}

NewCities == {"Monterrey"}

NewCustomerNames == {"Isaac Reyes "}

NewEmails == {"isaac@example.com"}

\* the values a caller passes to modify_hotel and modify_customer
ModNames == {"Hotel Sol "}

ModCities == {" Puebla"}

ModCustomerNames == {" Ana Ruiz"}

ModEmails == {"ana@example.com "}

ModRoomInputs == {0, MaxRooms}

(***************************************************************************)
(* str.strip on the strings the callers pass.                              *)
(***************************************************************************)
StripTable ==
    (" Azure Inn " :> "Azure Inn") @@ ("Isaac Reyes " :> "Isaac Reyes")
        @@ ("Hotel Sol " :> "Hotel Sol") @@ (" Puebla" :> "Puebla")
        @@ (" Ana Ruiz" :> "Ana Ruiz") @@ ("ana@example.com " :> "ana@example.com")

strip(s) == IF s \in DOMAIN StripTable THEN StripTable[s] ELSE s

(***************************************************************************)
(* JSON values of a stored row, and Python's str() and int() on them.      *)
(***************************************************************************)
JStr(s) == [t |-> "str", s |-> s, i |-> 0]

JInt(i) == [t |-> "int", s |-> "", i |-> i]

JNull == [t |-> "null", s |-> "", i |-> 0]

\* a number too large for a float, such as 1e999: json.loads yields float('inf')
JInf == [t |-> "inf", s |-> "", i |-> 0]

\* the integers whose decimal form a stored string can hold in this model
ParseRange == -1..(MaxRooms + 1)

\* str(v)
PyStr(v) ==
    CASE v.t = "str" -> v.s
      [] v.t = "int" -> IntToStr(v.i)
      [] v.t = "inf" -> "inf"
      [] OTHER -> "None"

\* int(v) succeeds: an int, or a string that is a decimal number; int(None)
\* raises TypeError, int("abc") raises ValueError
PyIntOk(v) ==
    CASE v.t = "int" -> TRUE
      [] v.t = "str" -> \E i \in ParseRange : IntToStr(i) = v.s
      [] OTHER -> FALSE

\* int(v) raises OverflowError: int(float('inf'))
PyIntOverflows(v) == v.t = "inf"

\* int(v), when it succeeds
PyInt(v) ==
    IF v.t = "int" THEN v.i ELSE CHOOSE i \in ParseRange : IntToStr(i) = v.s

(***************************************************************************)
(* Domain models: to_dict and from_dict.  from_dict yields <<entity>>, or  *)
(* <<>> where the code returns None: a KeyError, TypeError or ValueError   *)
(* of the constructor's arguments, which are evaluated in order.  Any      *)
(* other error leaves from_dict: X_from_dict_raises.                       *)
(***************************************************************************)
Hotel(hotel_id, name, city, total_rooms) ==
    [hotel_id |-> hotel_id, name |-> name, city |-> city, total_rooms |-> total_rooms]

\* fault: the room count is written as a string
Hotel_to_dict_str_rooms(h) ==
    [hotel_id |-> JStr(h.hotel_id), name |-> JStr(h.name), city |-> JStr(h.city),
     total_rooms |-> JStr(IntToStr(h.total_rooms))]

Hotel_to_dict(h) ==
    [hotel_id |-> JStr(h.hotel_id), name |-> JStr(h.name), city |-> JStr(h.city),
     total_rooms |-> JInt(h.total_rooms)]

Hotel_from_dict(data) ==
    IF /\ {"hotel_id", "name", "city", "total_rooms"} \subseteq DOMAIN data
       /\ PyIntOk(data.total_rooms)
    THEN <<Hotel(PyStr(data.hotel_id), PyStr(data.name), PyStr(data.city),
                 PyInt(data.total_rooms))>>
    ELSE <<>>

Hotel_from_dict_raises(data) ==
    /\ {"hotel_id", "name", "city", "total_rooms"} \subseteq DOMAIN data
    /\ PyIntOverflows(data.total_rooms)

Customer(customer_id, name, email) ==
    [customer_id |-> customer_id, name |-> name, email |-> email]

Customer_to_dict(c) ==
    [customer_id |-> JStr(c.customer_id), name |-> JStr(c.name), email |-> JStr(c.email)]

Customer_from_dict(data) ==
    IF {"customer_id", "name", "email"} \subseteq DOMAIN data
    THEN <<Customer(PyStr(data.customer_id), PyStr(data.name), PyStr(data.email))>>
    ELSE <<>>

Reservation(reservation_id, hotel_id, customer_id, rooms, status) ==
    [reservation_id |-> reservation_id, hotel_id |-> hotel_id,
     customer_id |-> customer_id, rooms |-> rooms, status |-> status]

\* fault: the status is written as cancelled whatever it is
Reservation_to_dict_cancelled(r) ==
    [reservation_id |-> JStr(r.reservation_id), hotel_id |-> JStr(r.hotel_id),
     customer_id |-> JStr(r.customer_id), rooms |-> JInt(r.rooms),
     status |-> JStr("cancelled")]

Reservation_to_dict(r) ==
    [reservation_id |-> JStr(r.reservation_id), hotel_id |-> JStr(r.hotel_id),
     customer_id |-> JStr(r.customer_id), rooms |-> JInt(r.rooms),
     status |-> JStr(r.status)]

Reservation_from_dict(data) ==
    IF /\ {"reservation_id", "hotel_id", "customer_id", "rooms"} \subseteq DOMAIN data
       /\ PyIntOk(data.rooms)
    THEN <<Reservation(PyStr(data.reservation_id), PyStr(data.hotel_id),
                       PyStr(data.customer_id), PyInt(data.rooms),
                       IF "status" \in DOMAIN data THEN PyStr(data.status) ELSE "active")>>
    ELSE <<>>

Reservation_from_dict_raises(data) ==
    /\ {"reservation_id", "hotel_id", "customer_id", "rooms"} \subseteq DOMAIN data
    /\ PyIntOverflows(data.rooms)

(***************************************************************************)
(* DataStore.  A file is absent, holds a JSON array of rows, holds JSON    *)
(* that is no array, holds text that is no JSON, or holds bytes that are   *)
(* no UTF-8 text.                                                          *)
(***************************************************************************)
AbsentFile == [kind |-> "absent", rows |-> <<>>]

\* a JSON object that wraps the rows, such as {"rows": [...]}
ObjectFile(rows) == [kind |-> "object", rows |-> rows]

\* the text of an array of rows cut before its closing bracket: no JSON
TruncatedFile(rows) == [kind |-> "invalid", rows |-> rows]

\* the text of an array of rows in another encoding, such as Latin-1 with an
\* accented letter in a name: read_text(encoding='utf-8') raises
\* UnicodeDecodeError
UndecodableFile(rows) == [kind |-> "undecodable", rows |-> rows]

\* _load_raw ends with the error it does not catch
_load_raw_raises(file) == file.kind = "undecodable"

\* fault: the rows are taken out of whatever the file holds
_load_raw_any_kind(file) == file.rows

_load_raw(file) == IF file.kind = "array" THEN file.rows ELSE <<>>

\* what _load_raw logs; the line and column of the JSON error are left out
_load_raw_log(file, name) ==
    CASE file.kind = "object" -> <<"File " \o name \o " must contain a JSON array.">>
      [] file.kind = "invalid" -> <<"Invalid JSON in " \o name \o ". Continuing...">>
      [] OTHER -> <<>>

_save_raw(rows) == [kind |-> "array", rows |-> rows]

RECURSIVE HotelsOf(_)
HotelsOf(rows) ==
    IF rows = <<>> THEN <<>> ELSE Hotel_from_dict(Head(rows)) \o HotelsOf(Tail(rows))

load_hotels(file) == HotelsOf(_load_raw(file))

\* load_hotels ends with the error Hotel.from_dict does not catch
load_hotels_raises(file) ==
    \/ _load_raw_raises(file)
    \/ \E i \in 1..Len(_load_raw(file)) : Hotel_from_dict_raises(_load_raw(file)[i])

\* the error a load ends with
load_error(file) ==
    IF _load_raw_raises(file)
    THEN "UnicodeDecodeError: 'utf-8' codec can't decode byte"
    ELSE "OverflowError: cannot convert float infinity to integer"

\* what load_hotels logs: one line for every row Hotel.from_dict returns None
\* for (the text of the exception is left out), up to a row that raises
RECURSIVE HotelsLog(_)
HotelsLog(rows) ==
    IF rows = <<>> THEN <<>>
    ELSE IF Hotel_from_dict_raises(Head(rows)) THEN <<>>
    ELSE (IF Hotel_from_dict(Head(rows)) = <<>> THEN <<"Invalid hotel record">> ELSE <<>>)
             \o HotelsLog(Tail(rows))

load_hotels_log(file) == _load_raw_log(file, "hotels.json") \o HotelsLog(_load_raw(file))

save_hotels(hotels) == _save_raw([i \in 1..Len(hotels) |-> Hotel_to_dict(hotels[i])])

RECURSIVE CustomersOf(_)
CustomersOf(rows) ==
    IF rows = <<>> THEN <<>> ELSE Customer_from_dict(Head(rows)) \o CustomersOf(Tail(rows))

load_customers(file) == CustomersOf(_load_raw(file))

load_customers_raises(file) == _load_raw_raises(file)

RECURSIVE CustomersLog(_)
CustomersLog(rows) ==
    IF rows = <<>> THEN <<>>
    ELSE (IF Customer_from_dict(Head(rows)) = <<>> THEN <<"Invalid customer record">>
          ELSE <<>>) \o CustomersLog(Tail(rows))

load_customers_log(file) ==
    _load_raw_log(file, "customers.json") \o CustomersLog(_load_raw(file))

save_customers(customers) ==
    _save_raw([i \in 1..Len(customers) |-> Customer_to_dict(customers[i])])

RECURSIVE ReservationsOf(_)
ReservationsOf(rows) ==
    IF rows = <<>> THEN <<>>
    ELSE Reservation_from_dict(Head(rows)) \o ReservationsOf(Tail(rows))

load_reservations(file) == ReservationsOf(_load_raw(file))

load_reservations_raises(file) ==
    \/ _load_raw_raises(file)
    \/ \E i \in 1..Len(_load_raw(file)) : Reservation_from_dict_raises(_load_raw(file)[i])

RECURSIVE ReservationsLog(_)
ReservationsLog(rows) ==
    IF rows = <<>> THEN <<>>
    ELSE IF Reservation_from_dict_raises(Head(rows)) THEN <<>>
    ELSE (IF Reservation_from_dict(Head(rows)) = <<>>
          THEN <<"Invalid reservation record">> ELSE <<>>)
             \o ReservationsLog(Tail(rows))

load_reservations_log(file) ==
    _load_raw_log(file, "reservations.json") \o ReservationsLog(_load_raw(file))

RECURSIVE ReservationRowsActive(_)
ReservationRowsActive(rs) ==
    IF rs = <<>> THEN <<>>
    ELSE (IF Head(rs).status = "active" THEN <<Reservation_to_dict(Head(rs))>> ELSE <<>>)
             \o ReservationRowsActive(Tail(rs))

\* fault: only the active reservations are written
save_reservations_active(reservations) ==
    _save_raw(ReservationRowsActive(reservations))

save_reservations(reservations) ==
    _save_raw([i \in 1..Len(reservations) |-> Reservation_to_dict(reservations[i])])

(***************************************************************************)
(* ReservationSystem: the lists every operation loads, and its save.       *)
(***************************************************************************)
hotels == load_hotels(hotelsFile)

customers == load_customers(customersFile)

reservations == load_reservations(reservationsFile)

\* _load_all ends with an error of one of its three loads
_load_all_raises ==
    \/ load_hotels_raises(hotelsFile)
    \/ load_customers_raises(customersFile)
    \/ load_reservations_raises(reservationsFile)

\* the error _load_all ends with: that of the first load that raises
_load_all_error ==
    IF load_hotels_raises(hotelsFile) THEN load_error(hotelsFile)
    ELSE IF load_customers_raises(customersFile) THEN load_error(customersFile)
    ELSE load_error(reservationsFile)

\* what _load_all logs: the three loads in order, up to one that raises
_load_all_log ==
    load_hotels_log(hotelsFile)
        \o (IF load_hotels_raises(hotelsFile) THEN <<>>
            ELSE load_customers_log(customersFile)
                     \o (IF load_customers_raises(customersFile) THEN <<>>
                         ELSE load_reservations_log(reservationsFile)))

_save_all(hs, cs, rs) ==
    /\ hotelsFile' = save_hotels(hs)
    /\ customersFile' = save_customers(cs)
    /\ reservationsFile' = save_reservations(rs)
    /\ saved' = TRUE

\* an operation that returns before _save_all
NoSave == /\ UNCHANGED files
          /\ saved' = FALSE

\* [x for x in seq if Keep(x)]
RECURSIVE SelectSeqOf(_, _)
SelectSeqOf(seq, keep) ==
    IF seq = <<>> THEN <<>>
    ELSE (IF Head(seq) \in keep THEN <<Head(seq)>> ELSE <<>>) \o SelectSeqOf(Tail(seq), keep)

Range(seq) == {seq[i] : i \in 1..Len(seq)}

Min(S) == CHOOSE x \in S : \A y \in S : x <= y

\* return values: a raised error, None, a bool, or an object
Raise(e) == [kind |-> "raise", ok |-> FALSE, val |-> <<e>>]

None == [kind |-> "None", ok |-> FALSE, val |-> <<>>]

Bool(b) == [kind |-> "bool", ok |-> b, val |-> <<>>]

Object(x) == [kind |-> "object", ok |-> TRUE, val |-> <<x>>]

\* the operation ends with the error that _load_all raised
_load_all_raised ==
    /\ log' = _load_all_log
    /\ result' = Raise(_load_all_error)
    /\ NoSave
    /\ UNCHANGED issued

\* the callers that share the store when operations run concurrently, and the
\* call of a caller that is in none
Callers == {"caller1", "caller2"}

Idle == [pc |-> "idle", request |-> [name |-> "none"], hotels |-> <<>>,
         customers |-> <<>>, reservations |-> <<>>, result |-> None]

Init ==
    /\ hotelsFile = AbsentFile
    /\ customersFile = AbsentFile
    /\ reservationsFile = AbsentFile
    /\ issued = [hotels |-> 0, customers |-> 0, reservations |-> 0]
    /\ op = [name |-> "__init__"]
    /\ result = None
    /\ saved = FALSE
    /\ log = <<>>
    /\ calls = [c \in Callers |-> Idle]

(***************************************************************************)
(* Hotels.                                                                 *)
(***************************************************************************)
create_hotel(name, city, total_rooms) ==
    /\ op' = [name |-> "create_hotel", total_rooms |-> total_rooms]
    /\ UNCHANGED calls
    /\ IF total_rooms <= 0
       THEN /\ log' = <<>>
            /\ result' = Raise("ValueError: total_rooms must be > 0")
            /\ NoSave
            /\ UNCHANGED issued
       ELSE IF _load_all_raises THEN _load_all_raised
       ELSE LET new_hotel == Hotel(uuid4("h", issued.hotels), strip(name), strip(city), total_rooms)
            IN /\ log' = _load_all_log
               /\ issued.hotels < MaxHotels
               /\ issued' = [issued EXCEPT !.hotels = @ + 1]
               /\ _save_all(Append(hotels, new_hotel), customers, reservations)
               /\ result' = Object(new_hotel)

\* fault: the guard of delete_hotel never fires
HotelHasActive_never(rs, hotel_id) == FALSE

\* any(r for r in reservations if r.hotel_id == hotel_id and r.status == 'active')
HotelHasActive(rs, hotel_id) ==
    \E i \in 1..Len(rs) : rs[i].hotel_id = hotel_id /\ rs[i].status = "active"

delete_hotel(hotel_id) ==
    /\ op' = [name |-> "delete_hotel", id |-> hotel_id]
    /\ UNCHANGED calls
    /\ UNCHANGED issued
    /\ IF _load_all_raises THEN _load_all_raised
       ELSE IF HotelHasActive(reservations, hotel_id)
       THEN /\ log' = _load_all_log \o <<"Cannot delete hotel " \o hotel_id \o ": active reservations exist.">>
            /\ result' = Bool(FALSE)
            /\ NoSave
       ELSE LET new_hotels ==
                    SelectSeqOf(hotels, {h \in Range(hotels) : h.hotel_id # hotel_id})
            IN IF Len(new_hotels) = Len(hotels)
               THEN /\ log' = _load_all_log \o <<"Hotel " \o hotel_id \o " not found.">>
                    /\ result' = Bool(FALSE)
                    /\ NoSave
               ELSE /\ log' = _load_all_log
                    /\ _save_all(new_hotels, customers, reservations)
                    /\ result' = Bool(TRUE)

\* fault: a field that is left out is emptied
or_stripped_emptied(old, new) == IF new = <<>> THEN "" ELSE strip(new[1])

\* h.name if name is None else name.strip()
or_stripped(old, new) == IF new = <<>> THEN old ELSE strip(new[1])

\* fault: a hotel of a single room is refused
new_rooms_invalid_single(new_rooms) == new_rooms <= 1

\* fault: a room count of zero passes the check
new_rooms_invalid_negative(new_rooms) == new_rooms < 0

\* new_rooms <= 0
new_rooms_invalid(new_rooms) == new_rooms <= 0

modify_hotel(hotel_id, name, city, total_rooms) ==
    LET match == {i \in 1..Len(hotels) : hotels[i].hotel_id = hotel_id}
        new_rooms(h) == IF total_rooms = <<>> THEN h.total_rooms ELSE total_rooms[1]
        updated(h) == Hotel(h.hotel_id, or_stripped(h.name, name),
                            or_stripped(h.city, city), new_rooms(h))
        new_hotels == [i \in 1..Len(hotels) |->
                          IF i \in match THEN updated(hotels[i]) ELSE hotels[i]]
    IN /\ op' = [name |-> "modify_hotel", id |-> hotel_id, new_name |-> name,
                 new_city |-> city, total_rooms |-> total_rooms]
       /\ UNCHANGED calls
       /\ UNCHANGED issued
       /\ IF _load_all_raises THEN _load_all_raised
          ELSE IF \E i \in match : new_rooms_invalid(new_rooms(hotels[i]))
          THEN /\ log' = _load_all_log \o <<"total_rooms must be > 0">>
               /\ result' = Bool(FALSE)
               /\ NoSave
          ELSE IF match = {}
          THEN /\ log' = _load_all_log \o <<"Hotel " \o hotel_id \o " not found.">>
               /\ result' = Bool(FALSE)
               /\ NoSave
          ELSE /\ log' = _load_all_log
               /\ _save_all(new_hotels, customers, reservations)
               /\ result' = Bool(TRUE)

(***************************************************************************)
(* Customers.                                                              *)
(***************************************************************************)
create_customer(name, email) ==
    LET new_customer == Customer(uuid4("c", issued.customers), strip(name), strip(email))
    IN /\ op' = [name |-> "create_customer"]
       /\ UNCHANGED calls
       /\ IF _load_all_raises THEN _load_all_raised
          ELSE /\ log' = _load_all_log
               /\ issued.customers < MaxCustomers
               /\ issued' = [issued EXCEPT !.customers = @ + 1]
               /\ _save_all(hotels, Append(customers, new_customer), reservations)
               /\ result' = Object(new_customer)

\* fault: a customer is deleted whatever reservations they hold
CustomerHasActive_never(rs, customer_id) == FALSE

\* fault: the guard of delete_customer does not look at the status
CustomerHasActive_any_status(rs, customer_id) ==
    \E i \in 1..Len(rs) : rs[i].customer_id = customer_id

\* any(r for r in reservations
\*     if r.customer_id == customer_id and r.status == 'active')
CustomerHasActive(rs, customer_id) ==
    \E i \in 1..Len(rs) : rs[i].customer_id = customer_id /\ rs[i].status = "active"

delete_customer(customer_id) ==
    /\ op' = [name |-> "delete_customer", id |-> customer_id]
    /\ UNCHANGED calls
    /\ UNCHANGED issued
    /\ IF _load_all_raises THEN _load_all_raised
       ELSE IF CustomerHasActive(reservations, customer_id)
       THEN /\ log' = _load_all_log \o <<"Cannot delete customer " \o customer_id
                          \o ": active reservations exist.">>
            /\ result' = Bool(FALSE)
            /\ NoSave
       ELSE LET new_customers ==
                    SelectSeqOf(customers,
                                {c \in Range(customers) : c.customer_id # customer_id})
            IN IF Len(new_customers) = Len(customers)
               THEN /\ log' = _load_all_log \o <<"Customer " \o customer_id \o " not found.">>
                    /\ result' = Bool(FALSE)
                    /\ NoSave
               ELSE /\ log' = _load_all_log
                    /\ _save_all(hotels, new_customers, reservations)
                    /\ result' = Bool(TRUE)

modify_customer(customer_id, name, email) ==
    LET match == {i \in 1..Len(customers) : customers[i].customer_id = customer_id}
        updated(c) == Customer(c.customer_id, or_stripped(c.name, name),
                               or_stripped(c.email, email))
        new_customers == [i \in 1..Len(customers) |->
                             IF i \in match THEN updated(customers[i]) ELSE customers[i]]
    IN /\ op' = [name |-> "modify_customer", id |-> customer_id, new_name |-> name,
                 new_email |-> email]
       /\ UNCHANGED calls
       /\ UNCHANGED issued
       /\ IF _load_all_raises THEN _load_all_raised
          ELSE IF match = {}
          THEN /\ log' = _load_all_log \o <<"Customer " \o customer_id \o " not found.">>
               /\ result' = Bool(FALSE)
               /\ NoSave
          ELSE /\ log' = _load_all_log
               /\ _save_all(hotels, new_customers, reservations)
               /\ result' = Bool(TRUE)

(***************************************************************************)
(* Reservations.                                                           *)
(***************************************************************************)
\* fault: the rooms of cancelled reservations are counted too
RECURSIVE UsedRooms_any_status(_, _)
UsedRooms_any_status(rs, hotel_id) ==
    IF rs = <<>> THEN 0
    ELSE (IF Head(rs).hotel_id = hotel_id THEN Head(rs).rooms ELSE 0)
             + UsedRooms_any_status(Tail(rs), hotel_id)

\* sum(r.rooms for r in rs if r.hotel_id == hotel_id and r.status == 'active')
RECURSIVE UsedRooms(_, _)
UsedRooms(rs, hotel_id) ==
    IF rs = <<>> THEN 0
    ELSE (IF Head(rs).hotel_id = hotel_id /\ Head(rs).status = "active"
          THEN Head(rs).rooms ELSE 0) + UsedRooms(Tail(rs), hotel_id)

\* fault: the rooms in use are not subtracted
_hotel_available_rooms_total(hotel, rs) == hotel.total_rooms

_hotel_available_rooms(hotel, rs) == hotel.total_rooms - UsedRooms(rs, hotel.hotel_id)

\* fault: the customer identifier is not compared
find_customer_any(cs, customer_id) == 1..Len(cs)

\* the customers that next(c for c in customers if c.customer_id == customer_id)
\* looks through
find_customer(cs, customer_id) == {i \in 1..Len(cs) : cs[i].customer_id = customer_id}

\* fault: the rooms available are not looked at
not_enough_rooms_never(rooms, available) == FALSE

\* fault: the comparison is off by one
not_enough_rooms_ge(rooms, available) == rooms >= available

\* rooms > available
not_enough_rooms(rooms, available) == rooms > available

\* fault: a request for no rooms passes the check
rooms_invalid_negative(rooms) == rooms < 0

\* rooms <= 0
rooms_invalid(rooms) == rooms <= 0

create_reservation(hotel_id, customer_id, rooms) ==
    LET hmatch == {i \in 1..Len(hotels) : hotels[i].hotel_id = hotel_id}
        cmatch == find_customer(customers, customer_id)
        available == _hotel_available_rooms(hotels[Min(hmatch)], reservations)
        res == Reservation(uuid4("r", issued.reservations), hotel_id, customer_id, rooms, "active")
    IN /\ op' = [name |-> "create_reservation", hotel_id |-> hotel_id,
                 customer_id |-> customer_id, rooms |-> rooms]
       /\ UNCHANGED calls
       /\ IF rooms_invalid(rooms)
          THEN /\ log' = <<"rooms must be > 0">>
               /\ result' = None
               /\ NoSave
               /\ UNCHANGED issued
          ELSE IF _load_all_raises THEN _load_all_raised
          ELSE IF hmatch = {}
          THEN /\ log' = _load_all_log \o <<"Hotel " \o hotel_id \o " not found.">>
               /\ result' = None
               /\ NoSave
               /\ UNCHANGED issued
          ELSE IF cmatch = {}
          THEN /\ log' = _load_all_log \o <<"Customer " \o customer_id \o " not found.">>
               /\ result' = None
               /\ NoSave
               /\ UNCHANGED issued
          ELSE IF not_enough_rooms(rooms, available)
          THEN /\ log' = _load_all_log
                             \o <<"Not enough rooms: requested=" \o IntToStr(rooms)
                                     \o " available=" \o IntToStr(available)>>
               /\ result' = None
               /\ NoSave
               /\ UNCHANGED issued
          ELSE /\ log' = _load_all_log
               /\ issued.reservations < MaxReservations
               /\ issued' = [issued EXCEPT !.reservations = @ + 1]
               /\ _save_all(hotels, customers, Append(reservations, res))
               /\ result' = Object(res)

\* fault: a cancelled reservation is made active again
cancel_one_toggle(r) ==
    Reservation(r.reservation_id, r.hotel_id, r.customer_id, r.rooms,
                IF r.status = "cancelled" THEN "active" ELSE "cancelled")

\* the loop body of cancel_reservation on the reservation with the given id:
\* an already cancelled one is kept as it is, any other gets status 'cancelled'
cancel_one(r) ==
    IF r.status = "cancelled" THEN r
    ELSE Reservation(r.reservation_id, r.hotel_id, r.customer_id, r.rooms, "cancelled")

\* fault: found is set whether or not an identifier matched
found_always(rs, reservation_id) == TRUE

\* the flag found after the loop of cancel_reservation
found(rs, reservation_id) ==
    \E i \in 1..Len(rs) : rs[i].reservation_id = reservation_id

cancel_reservation(reservation_id) ==
    LET match == {i \in 1..Len(reservations) :
                     reservations[i].reservation_id = reservation_id}
        already == {i \in match : reservations[i].status = "cancelled"}
        updated == [i \in 1..Len(reservations) |->
                       IF i \in match THEN cancel_one(reservations[i])
                       ELSE reservations[i]]
    IN /\ op' = [name |-> "cancel_reservation", id |-> reservation_id]
       /\ UNCHANGED calls
       /\ UNCHANGED issued
       /\ IF _load_all_raises THEN _load_all_raised
          ELSE IF ~found(reservations, reservation_id)
          THEN /\ log' = _load_all_log
                             \o <<"Reservation " \o reservation_id \o " not found.">>
               /\ result' = Bool(FALSE)
               /\ NoSave
          ELSE /\ log' = _load_all_log
                             \o [k \in 1..Cardinality(already) |->
                                    "Reservation " \o reservation_id \o " already cancelled."]
               /\ _save_all(hotels, customers, updated)
               /\ result' = Bool(TRUE)

\* the summary is an f-string; its em dash is written "--" here
hotel_info(hotel_id) ==
    LET hmatch == {i \in 1..Len(hotels) : hotels[i].hotel_id = hotel_id}
        hotel == hotels[Min(hmatch)]
        available == _hotel_available_rooms(hotel, reservations)
    IN /\ op' = [name |-> "hotel_info", id |-> hotel_id]
       /\ UNCHANGED calls
       /\ UNCHANGED issued
       /\ NoSave
       /\ IF _load_all_raises THEN _load_all_raised
          ELSE IF hmatch = {}
          THEN /\ log' = _load_all_log \o <<"Hotel " \o hotel_id \o " not found.">>
               /\ result' = None
          ELSE /\ log' = _load_all_log
               /\ result' = Object("Hotel '" \o hotel.name \o "' in " \o hotel.city
                                   \o " -- total: " \o IntToStr(hotel.total_rooms)
                                   \o ", available: " \o IntToStr(available))

customer_info(customer_id) ==
    LET cmatch == {i \in 1..Len(customers) : customers[i].customer_id = customer_id}
        customer == customers[Min(cmatch)]
    IN /\ op' = [name |-> "customer_info", id |-> customer_id]
       /\ UNCHANGED calls
       /\ UNCHANGED issued
       /\ NoSave
       /\ IF load_customers_raises(customersFile)
          THEN /\ log' = <<>>
               /\ result' = Raise(load_error(customersFile))
          ELSE IF cmatch = {}
          THEN /\ log' = load_customers_log(customersFile)
                             \o <<"Customer " \o customer_id \o " not found.">>
               /\ result' = None
          ELSE /\ log' = load_customers_log(customersFile)
               /\ result' = Object("Customer '" \o customer.name \o "' <"
                                   \o customer.email \o ">")

(***************************************************************************)
(* A single caller invoking the service operations one after another.  The *)
(* caller of modify_hotel supplies total_rooms or nothing, the caller of   *)
(* modify_customer nothing: name, city and email are left out (None).      *)
(***************************************************************************)
Next ==
    \/ \E name \in NewNames, city \in NewCities, total_rooms \in HotelRoomInputs :
           create_hotel(name, city, total_rooms)
    \/ \E hotel_id \in HotelIdInputs : delete_hotel(hotel_id)
    \/ \E hotel_id \in HotelIdInputs, total_rooms \in Optional(HotelRoomInputs) :
           modify_hotel(hotel_id, <<>>, <<>>, total_rooms)
    \/ \E name \in NewCustomerNames, email \in NewEmails : create_customer(name, email)
    \/ \E customer_id \in CustomerIdInputs : delete_customer(customer_id)
    \/ \E customer_id \in CustomerIdInputs : modify_customer(customer_id, <<>>, <<>>)
    \/ \E hotel_id \in HotelIdInputs, customer_id \in CustomerIdInputs, rooms \in ReservationRoomInputs :
           create_reservation(hotel_id, customer_id, rooms)
    \/ \E reservation_id \in ReservationIdInputs : cancel_reservation(reservation_id)
    \/ \E hotel_id \in HotelIdInputs : hotel_info(hotel_id)
    \/ \E customer_id \in CustomerIdInputs : customer_info(customer_id)

Spec == Init /\ [][Next]_vars

(***************************************************************************)
(* The service on a store that earlier runs and other programs have left:  *)
(* each file is absent, or holds an array of rows some of which are no     *)
(* records of the service, or holds no array at all.  The rows carry the   *)
(* identifiers "h1", "c1" and "r1", handed out before.                     *)
(***************************************************************************)
StoredHotel == Hotel_to_dict(Hotel("h1", "Azure Inn", "Monterrey", MaxRooms))

\* the hotel with its room count written as a string, which int() parses
StoredHotelStrRooms == [StoredHotel EXCEPT !.total_rooms = JStr(IntToStr(MaxRooms))]

\* rows Hotel.from_dict returns None for: no total_rooms (KeyError), null for
\* total_rooms (TypeError)
StoredHotelNoRooms ==
    [hotel_id |-> JStr("h1"), name |-> JStr("Azure Inn"), city |-> JStr("Monterrey")]

StoredHotelNullRooms == [StoredHotel EXCEPT !.total_rooms = JNull]

\* the hotel with total_rooms written as 1e999
StoredHotelInfRooms == [StoredHotel EXCEPT !.total_rooms = JInf]

StoredHotelFiles ==
    {AbsentFile, TruncatedFile(<<StoredHotel>>), ObjectFile(<<StoredHotel>>),
     UndecodableFile(<<StoredHotel>>),
     _save_raw(<<StoredHotel>>), _save_raw(<<StoredHotelStrRooms>>),
     _save_raw(<<StoredHotelNoRooms, StoredHotel>>),
     _save_raw(<<StoredHotel, StoredHotelNullRooms>>),
     _save_raw(<<StoredHotelInfRooms, StoredHotel>>)}

StoredCustomer == Customer_to_dict(Customer("c1", "Isaac Reyes", "isaac@example.com"))

\* a row Customer.from_dict returns None for: no email (KeyError)
StoredCustomerNoEmail == [customer_id |-> JStr("c1"), name |-> JStr("Isaac Reyes")]

StoredCustomerFiles ==
    {AbsentFile, TruncatedFile(<<StoredCustomer>>), UndecodableFile(<<StoredCustomer>>),
     _save_raw(<<StoredCustomer>>),
     _save_raw(<<StoredCustomerNoEmail, StoredCustomer>>)}

StoredReservation == Reservation_to_dict(Reservation("r1", "h1", "c1", 1, "active"))

\* the reservation written without its status, which from_dict takes as active
StoredReservationNoStatus ==
    [reservation_id |-> JStr("r1"), hotel_id |-> JStr("h1"),
     customer_id |-> JStr("c1"), rooms |-> JInt(1)]

\* rows Reservation.from_dict returns None for: a number in the place of a
\* record (TypeError), a word for rooms (ValueError)
StoredNumber == JInt(5)

StoredReservationWordRooms == [StoredReservation EXCEPT !.rooms = JStr("one")]

StoredReservationInfRooms == [StoredReservation EXCEPT !.rooms = JInf]

StoredReservationFiles ==
    {AbsentFile, ObjectFile(<<StoredReservation>>), _save_raw(<<StoredReservation>>),
     _save_raw(<<StoredReservationNoStatus>>),
     _save_raw(<<StoredNumber, StoredReservation>>),
     _save_raw(<<StoredReservation, StoredReservationWordRooms>>),
     _save_raw(<<StoredReservationInfRooms>>)}

InitStored ==
    /\ hotelsFile \in StoredHotelFiles
    /\ customersFile \in StoredCustomerFiles
    /\ reservationsFile \in StoredReservationFiles
    /\ issued = [hotels |-> IF hotelsFile = AbsentFile THEN 0 ELSE 1,
                 customers |-> IF customersFile = AbsentFile THEN 0 ELSE 1,
                 reservations |-> IF reservationsFile = AbsentFile THEN 0 ELSE 1]
    /\ op = [name |-> "__init__"]
    /\ result = None
    /\ saved = FALSE
    /\ log = <<>>
    /\ calls = [c \in Callers |-> Idle]

(***************************************************************************)
(* A caller of the DataStore saving the list it has just loaded.           *)
(***************************************************************************)
resave_hotels ==
    /\ op' = [name |-> "save_hotels(load_hotels())"]
    /\ UNCHANGED calls
    /\ log' = load_hotels_log(hotelsFile)
    /\ saved' = FALSE
    /\ UNCHANGED <<issued, customersFile, reservationsFile>>
    /\ IF load_hotels_raises(hotelsFile)
       THEN /\ result' = Raise(load_error(hotelsFile))
            /\ UNCHANGED hotelsFile
       ELSE /\ result' = None
            /\ hotelsFile' = save_hotels(load_hotels(hotelsFile))

resave_customers ==
    /\ op' = [name |-> "save_customers(load_customers())"]
    /\ UNCHANGED calls
    /\ log' = load_customers_log(customersFile)
    /\ saved' = FALSE
    /\ UNCHANGED <<issued, hotelsFile, reservationsFile>>
    /\ IF load_customers_raises(customersFile)
       THEN /\ result' = Raise(load_error(customersFile))
            /\ UNCHANGED customersFile
       ELSE /\ result' = None
            /\ customersFile' = save_customers(load_customers(customersFile))

resave_reservations ==
    /\ op' = [name |-> "save_reservations(load_reservations())"]
    /\ UNCHANGED calls
    /\ log' = load_reservations_log(reservationsFile)
    /\ saved' = FALSE
    /\ UNCHANGED <<issued, hotelsFile, customersFile>>
    /\ IF load_reservations_raises(reservationsFile)
       THEN /\ result' = Raise(load_error(reservationsFile))
            /\ UNCHANGED reservationsFile
       ELSE /\ result' = None
            /\ reservationsFile' = save_reservations(load_reservations(reservationsFile))

\* the room counts the callers pass: none too few, and the largest
StoredRoomInputs == {0, MaxRooms}

NextStored ==
    \/ \E name \in NewNames, city \in NewCities, total_rooms \in StoredRoomInputs :
           create_hotel(name, city, total_rooms)
    \/ \E hotel_id \in HotelIdInputs : delete_hotel(hotel_id)
    \/ \E hotel_id \in HotelIdInputs : modify_hotel(hotel_id, <<>>, <<>>, <<>>)
    \/ \E name \in NewCustomerNames, email \in NewEmails : create_customer(name, email)
    \/ \E customer_id \in CustomerIdInputs : delete_customer(customer_id)
    \/ \E customer_id \in CustomerIdInputs : modify_customer(customer_id, <<>>, <<>>)
    \/ \E hotel_id \in HotelIdInputs, customer_id \in CustomerIdInputs, rooms \in StoredRoomInputs :
           create_reservation(hotel_id, customer_id, rooms)
    \/ \E reservation_id \in ReservationIdInputs : cancel_reservation(reservation_id)
    \/ \E hotel_id \in HotelIdInputs : hotel_info(hotel_id)
    \/ \E customer_id \in CustomerIdInputs : customer_info(customer_id)
    \/ resave_hotels
    \/ resave_customers
    \/ resave_reservations

SpecStored == InitStored /\ [][NextStored]_vars

(***************************************************************************)
(* Two callers (processes or threads) running operations against the same  *)
(* store.  Nothing locks the files, so the _load_all of an operation and   *)
(* its _save_all are two steps, and steps of the other caller may fall in  *)
(* between.  What the operation computes in between is local to it and is  *)
(* part of the second step.                                                *)
(***************************************************************************)
\* the requests of the callers
Requests ==
    {[name |-> "create_hotel", hotel_name |-> n, city |-> c, total_rooms |-> MaxRooms] :
         n \in NewNames, c \in NewCities}
        \cup {[name |-> "create_customer", customer_name |-> n, email |-> e] :
                  n \in NewCustomerNames, e \in NewEmails}
        \cup {[name |-> "create_reservation", hotel_id |-> h, customer_id |-> cu,
               rooms |-> r] :
                  h \in HotelIdInputs, cu \in CustomerIdInputs, r \in 1..MaxRooms}

\* the calls of an operation that have loaded and not yet saved
InFlight(name) == {c \in Callers : calls[c].pc = "loaded" /\ calls[c].request.name = name}

\* hotels, customers, reservations = self._load_all()
call_load(c, request) ==
    /\ calls[c].pc # "loaded"
    /\ request.name = "create_hotel"
           => issued.hotels + Cardinality(InFlight("create_hotel")) < MaxHotels
    /\ request.name = "create_customer"
           => issued.customers + Cardinality(InFlight("create_customer")) < MaxCustomers
    /\ request.name = "create_reservation"
           => issued.reservations + Cardinality(InFlight("create_reservation"))
                  < MaxReservations
    /\ calls' = [calls EXCEPT ![c] = [pc |-> "loaded", request |-> request,
                                      hotels |-> hotels, customers |-> customers,
                                      reservations |-> reservations, result |-> None]]
    /\ UNCHANGED <<files, issued, op, result, saved, log>>

\* fault: the lists are read again at the time of the save
held_reloaded(c) ==
    [hotels |-> hotels, customers |-> customers, reservations |-> reservations]

\* the three lists the operation of caller c holds since its _load_all
held(c) ==
    [hotels |-> calls[c].hotels, customers |-> calls[c].customers,
     reservations |-> calls[c].reservations]

\* create_reservation after its _load_all, on the lists hs, cs, rs it loaded
call_create_reservation(hs, cs, rs, request) ==
    LET hmatch == {i \in 1..Len(hs) : hs[i].hotel_id = request.hotel_id}
        cmatch == find_customer(cs, request.customer_id)
        available == _hotel_available_rooms(hs[Min(hmatch)], rs)
        res == Reservation(uuid4("r", issued.reservations), request.hotel_id,
                           request.customer_id, request.rooms, "active")
    IN IF hmatch = {}
       THEN /\ log' = <<"Hotel " \o request.hotel_id \o " not found.">>
            /\ result' = None
            /\ NoSave
            /\ UNCHANGED issued
       ELSE IF cmatch = {}
       THEN /\ log' = <<"Customer " \o request.customer_id \o " not found.">>
            /\ result' = None
            /\ NoSave
            /\ UNCHANGED issued
       ELSE IF not_enough_rooms(request.rooms, available)
       THEN /\ log' = <<"Not enough rooms: requested=" \o IntToStr(request.rooms)
                            \o " available=" \o IntToStr(available)>>
            /\ result' = None
            /\ NoSave
            /\ UNCHANGED issued
       ELSE /\ log' = <<>>
            /\ issued' = [issued EXCEPT !.reservations = @ + 1]
            /\ _save_all(hs, cs, Append(rs, res))
            /\ result' = Object(res)

\* the rest of the operation: the new record is appended to the list held,
\* the three lists held are saved and the record is returned
call_save(c) ==
    LET request == calls[c].request
        new_hotel == Hotel(uuid4("h", issued.hotels), strip(request.hotel_name),
                           strip(request.city), request.total_rooms)
        new_customer == Customer(uuid4("c", issued.customers),
                                 strip(request.customer_name), strip(request.email))
    IN /\ calls[c].pc = "loaded"
       /\ op' = [name |-> request.name, caller |-> c]
       /\ IF request.name = "create_hotel"
          THEN /\ log' = <<>>
               /\ issued' = [issued EXCEPT !.hotels = @ + 1]
               /\ _save_all(Append(held(c).hotels, new_hotel), held(c).customers,
                            held(c).reservations)
               /\ result' = Object(new_hotel)
          ELSE IF request.name = "create_customer"
          THEN /\ log' = <<>>
               /\ issued' = [issued EXCEPT !.customers = @ + 1]
               /\ _save_all(held(c).hotels, Append(held(c).customers, new_customer),
                            held(c).reservations)
               /\ result' = Object(new_customer)
          ELSE call_create_reservation(held(c).hotels, held(c).customers,
                                       held(c).reservations, request)
       /\ calls' = [calls EXCEPT ![c].pc = "returned", ![c].result = result']

NextConcurrent ==
    \/ \E c \in Callers, request \in Requests : call_load(c, request)
    \/ \E c \in Callers : call_save(c)

SpecConcurrent == Init /\ [][NextConcurrent]_vars

(***************************************************************************)
(* A single caller that creates records and modifies them, supplying any   *)
(* of the fields or none.                                                  *)
(***************************************************************************)
NextModify ==
    \/ \E name \in NewNames, city \in NewCities : create_hotel(name, city, MaxRooms)
    \/ \E hotel_id \in HotelIdInputs, name \in Optional(ModNames),
          city \in Optional(ModCities), total_rooms \in Optional(ModRoomInputs) :
           modify_hotel(hotel_id, name, city, total_rooms)
    \/ \E name \in NewCustomerNames, email \in NewEmails : create_customer(name, email)
    \/ \E customer_id \in CustomerIdInputs, name \in Optional(ModCustomerNames),
          email \in Optional(ModEmails) :
           modify_customer(customer_id, name, email)
    \/ \E hotel_id \in IssuedIds("h", 1), customer_id \in CustomerIdInputs :
           create_reservation(hotel_id, customer_id, MaxRooms)

SpecModify == Init /\ [][NextModify]_vars

(***************************************************************************)
(* What the properties below speak about.                                  *)
(***************************************************************************)
\* the stored hotels, customers and reservations with a given identifier
HotelsWithId(hs, id) == {i \in 1..Len(hs) : hs[i].hotel_id = id}

CustomersWithId(cs, id) == {i \in 1..Len(cs) : cs[i].customer_id = id}

ReservationsWithId(rs, id) == {i \in 1..Len(rs) : rs[i].reservation_id = id}

\* the reservations of a hotel that hold rooms
ActiveOf(rs, id) == {i \in 1..Len(rs) : rs[i].hotel_id = id /\ rs[i].status = "active"}

\* the sum of rooms over a set of reservations
RECURSIVE RoomsOf(_, _)
RoomsOf(rs, I) ==
    IF I = {} THEN 0
    ELSE LET i == CHOOSE k \in I : TRUE IN rs[i].rooms + RoomsOf(rs, I \ {i})

\* total_rooms minus the rooms of the hotel's active reservations
Available(h, rs) == h.total_rooms - RoomsOf(rs, ActiveOf(rs, h.hotel_id))

\* the hotels holding more active rooms than they have
Overbooked(hs, rs) ==
    {hs[i].hotel_id : i \in {k \in 1..Len(hs) : Available(hs[k], rs) < 0}}

(***************************************************************************)
(* C1.  Capacity invariant.                                                *)
(***************************************************************************)
\* C1 as claimed: in every reachable state, for every stored hotel the rooms of
\* its active reservations do not exceed its total_rooms.
C1_CapacityAlways == Overbooked(hotels, reservations) = {}

\* C1 as amended: a hotel holds more active rooms than its total_rooms only after
\* a modify_hotel call on it that supplied total_rooms; every other operation,
\* create_reservation included, leaves every hotel within its capacity that was
\* within it, and a new hotel is within it.
C1_CapacityKept ==
    [][files' # files =>
           Overbooked(hotels', reservations')
               \subseteq Overbooked(hotels, reservations)
                         \cup (IF op'.name = "modify_hotel" /\ op'.total_rooms # <<>>
                               THEN {op'.id} ELSE {})]_vars

\* a reservation was just created that fills its hotel to the last room
C1_Witness ==
    /\ op.name = "create_reservation"
    /\ result.kind = "object"
    /\ \E i \in HotelsWithId(hotels, op.hotel_id) :
           /\ Available(hotels[i], reservations) = 0
           /\ Cardinality(ActiveOf(reservations, op.hotel_id)) = 2

(***************************************************************************)
(* C2.  Capacity boundary.                                                 *)
(***************************************************************************)
\* a create_reservation call for a stored hotel and a stored customer
C2_Call ==
    /\ op'.name = "create_reservation"
    /\ HotelsWithId(hotels, op'.hotel_id) # {}
    /\ CustomersWithId(customers, op'.customer_id) # {}

\* the rooms available in the hotel of the call, before the call
C2_Available ==
    Available(hotels[Min(HotelsWithId(hotels, op'.hotel_id))], reservations)

\* the call returns a new active reservation of the rooms asked for, recorded
\* last in the reservations
C2_Succeeds ==
    /\ result'.kind = "object"
    /\ Len(reservations') = Len(reservations) + 1
    /\ result'.val[1] = reservations'[Len(reservations')]
    /\ result'.val[1].status = "active"
    /\ result'.val[1].rooms = op'.rooms

\* asking for one room more than available returns None and changes nothing
C2_OneMoreFails ==
    op'.rooms = C2_Available + 1 => result' = None /\ UNCHANGED files

\* C2 as claimed: for every stored hotel and stored customer, reserving exactly
\* the available rooms succeeds, and reserving one more fails and changes nothing.
C2_BoundaryAlways ==
    [][C2_Call => /\ op'.rooms = C2_Available => C2_Succeeds
                  /\ C2_OneMoreFails]_vars

\* C2 as amended: for every stored hotel with at least one available room and
\* every stored customer, reserving exactly the available rooms succeeds; and for
\* every stored hotel, reserving one more than the available rooms fails and
\* leaves the three collections unchanged.
C2_BoundaryWhenRoomsLeft ==
    [][C2_Call => /\ (op'.rooms = C2_Available /\ C2_Available >= 1) => C2_Succeeds
                  /\ C2_OneMoreFails]_vars

\* the last available rooms of a hotel were just reserved, after an earlier
\* reservation of the same hotel
C2_Witness ==
    /\ op.name = "create_reservation"
    /\ result.kind = "object"
    /\ Len(reservations) = 2
    /\ \E i \in HotelsWithId(hotels, op.hotel_id) :
           /\ Available(hotels[i], reservations) = 0
           /\ hotels[i].total_rooms = MaxRooms

(***************************************************************************)
(* C3.  create_reservation succeeds exactly when its four checks pass.     *)
(***************************************************************************)
\* the four conditions of C3, on the state before the call
C3_Accepts ==
    /\ op'.rooms > 0
    /\ HotelsWithId(hotels, op'.hotel_id) # {}
    /\ CustomersWithId(customers, op'.customer_id) # {}
    /\ op'.rooms <= Available(hotels[Min(HotelsWithId(hotels, op'.hotel_id))],
                              reservations)

\* the identifiers of all stored records
StoredIds ==
    {hotels[i].hotel_id : i \in 1..Len(hotels)}
        \cup {customers[i].customer_id : i \in 1..Len(customers)}
        \cup {reservations[i].reservation_id : i \in 1..Len(reservations)}

\* C3: create_reservation returns a new active reservation, with a fresh
\* identifier and the arguments of the call, appended to the reservations, if and
\* only if rooms > 0, the hotel is stored, the customer is stored and rooms does
\* not exceed the hotel's available rooms; in every other case it returns None,
\* and the three collections are unchanged.
C3_CreateReservation ==
    [][op'.name = "create_reservation" =>
          IF C3_Accepts
          THEN /\ result'.kind = "object"
               /\ result'.val[1].reservation_id \notin StoredIds
               /\ result'.val[1] = Reservation(result'.val[1].reservation_id,
                                               op'.hotel_id, op'.customer_id,
                                               op'.rooms, "active")
               /\ reservations' = Append(reservations, result'.val[1])
               /\ hotels' = hotels
               /\ customers' = customers
          ELSE /\ result' = None
               /\ UNCHANGED files]_vars

\* a reservation was refused for a customer identifier that is not stored, the
\* hotel being stored with enough rooms available
C3_Witness ==
    /\ op.name = "create_reservation"
    /\ result = None
    /\ CustomersWithId(customers, op.customer_id) = {}
    /\ Len(customers) > 0
    /\ \E i \in HotelsWithId(hotels, op.hotel_id) :
           /\ op.rooms > 0
           /\ op.rooms <= Available(hotels[i], reservations)

(***************************************************************************)
(* C4.  Delete guard.                                                      *)
(***************************************************************************)
\* some active reservation references the hotel, or the customer
ActiveRefHotel(rs, id) ==
    \E i \in 1..Len(rs) : rs[i].hotel_id = id /\ rs[i].status = "active"

ActiveRefCustomer(rs, id) ==
    \E i \in 1..Len(rs) : rs[i].customer_id = id /\ rs[i].status = "active"

\* C4: delete_hotel(id) and delete_customer(id) return False whenever an active
\* reservation references id; the hotel or customer is then still stored, the
\* three collections are as they were and nothing is written.
C4_DeleteGuard ==
    [][/\ (op'.name = "delete_hotel" /\ ActiveRefHotel(reservations, op'.id))
             => /\ result' = Bool(FALSE)
                /\ HotelsWithId(hotels', op'.id) # {}
                /\ UNCHANGED files
                /\ ~saved'
       /\ (op'.name = "delete_customer" /\ ActiveRefCustomer(reservations, op'.id))
             => /\ result' = Bool(FALSE)
                /\ CustomersWithId(customers', op'.id) # {}
                /\ UNCHANGED files
                /\ ~saved']_vars

\* delete_hotel was just refused for a hotel that has an active and a cancelled
\* reservation
C4_Witness ==
    /\ op.name = "delete_hotel"
    /\ result = Bool(FALSE)
    /\ HotelsWithId(hotels, op.id) # {}
    /\ ActiveRefHotel(reservations, op.id)
    /\ \E i \in 1..Len(reservations) :
           reservations[i].hotel_id = op.id /\ reservations[i].status = "cancelled"

(***************************************************************************)
(* C5.  Delete after cancel.                                               *)
(***************************************************************************)
\* every reservation that references the hotel, or the customer, is cancelled
OnlyCancelledRefHotel(rs, id) ==
    \A i \in 1..Len(rs) : rs[i].hotel_id = id => rs[i].status = "cancelled"

OnlyCancelledRefCustomer(rs, id) ==
    \A i \in 1..Len(rs) : rs[i].customer_id = id => rs[i].status = "cancelled"

\* seq without the entries at the positions in I
Without(seq, I) ==
    SelectSeqOf(seq, {seq[i] : i \in (1..Len(seq)) \ I})

\* C5: for a stored hotel (customer) whose every referencing reservation is
\* cancelled, delete_hotel (delete_customer) returns True and removes exactly
\* that record: the other hotels (customers) stay in order and the two other
\* collections are unchanged.
C5_DeleteAfterCancel ==
    [][/\ (/\ op'.name = "delete_hotel"
           /\ HotelsWithId(hotels, op'.id) # {}
           /\ OnlyCancelledRefHotel(reservations, op'.id))
             => /\ result' = Bool(TRUE)
                /\ hotels' = Without(hotels, HotelsWithId(hotels, op'.id))
                /\ Len(hotels') = Len(hotels) - 1
                /\ customers' = customers
                /\ reservations' = reservations
       /\ (/\ op'.name = "delete_customer"
           /\ CustomersWithId(customers, op'.id) # {}
           /\ OnlyCancelledRefCustomer(reservations, op'.id))
             => /\ result' = Bool(TRUE)
                /\ customers' = Without(customers, CustomersWithId(customers, op'.id))
                /\ Len(customers') = Len(customers) - 1
                /\ hotels' = hotels
                /\ reservations' = reservations]_vars

\* a hotel was just deleted all of whose reservations, two of them, had been
\* cancelled, and the other hotel is still stored
C5_Witness ==
    /\ op.name = "delete_hotel"
    /\ result = Bool(TRUE)
    /\ Len(hotels) = 1
    /\ Cardinality({i \in 1..Len(reservations) :
                       /\ reservations[i].hotel_id = op.id
                       /\ reservations[i].status = "cancelled"}) = 2

(***************************************************************************)
(* C6.  The second cancel_reservation reports failure.                     *)
(***************************************************************************)
\* the reservation with the identifier of the call is stored and cancelled
\* before the call
AlreadyCancelled ==
    \E i \in ReservationsWithId(reservations, op'.id) :
        reservations[i].status = "cancelled"

\* C6: cancel_reservation on a reservation that is already cancelled returns
\* False; so of two consecutive calls on the same stored reservation the second
\* returns False.
C6_SecondCancelFails ==
    [][(op'.name = "cancel_reservation" /\ AlreadyCancelled)
          => result' = Bool(FALSE)]_vars

(***************************************************************************)
(* C7.  cancel_reservation is idempotent in effect.                        *)
(***************************************************************************)
\* C7: cancelling a reservation that is already cancelled leaves the contents of
\* the three collections as the first cancellation left them: the reservation
\* stays cancelled with its identifier, hotel, customer and rooms, and every
\* other record is unchanged.
C7_CancelTwiceSameContents ==
    [][(op'.name = "cancel_reservation" /\ AlreadyCancelled)
          => /\ hotels' = hotels
             /\ customers' = customers
             /\ reservations' = reservations
             /\ \A i \in ReservationsWithId(reservations', op'.id) :
                    reservations'[i].status = "cancelled"]_vars

\* a reservation was just cancelled a second time, next to an active one
C7_Witness ==
    /\ op.name = "cancel_reservation"
    /\ log = <<"Reservation " \o op.id \o " already cancelled.">>
    /\ saved
    /\ \E i \in 1..Len(reservations) : reservations[i].status = "active"
    /\ \E i \in ReservationsWithId(reservations, op.id) :
           reservations[i].status = "cancelled"

(***************************************************************************)
(* C8.  Reservation lifecycle.                                             *)
(***************************************************************************)
\* what C8 says of one step from the reservations rs to the reservations rs2,
\* made by operation o
C8_Step(rs, rs2, o) ==
    /\ Len(rs2) >= Len(rs)
    /\ \A i \in 1..Len(rs) :
          /\ rs2[i].reservation_id = rs[i].reservation_id
          /\ rs2[i].hotel_id = rs[i].hotel_id
          /\ rs2[i].customer_id = rs[i].customer_id
          /\ rs2[i].rooms = rs[i].rooms
          /\ rs[i].status = "cancelled" => rs2[i].status = "cancelled"
          /\ rs2[i].status # rs[i].status
                => /\ rs[i].status = "active"
                   /\ rs2[i].status = "cancelled"
                   /\ o.name = "cancel_reservation"
                   /\ o.id = rs[i].reservation_id

\* C8: no operation removes a recorded reservation or changes its identifier,
\* hotel, customer or rooms; its status changes only from active to cancelled,
\* and only by cancel_reservation called with its identifier; a cancelled
\* reservation never becomes active again.
C8_Lifecycle ==
    [][\A rs \in {reservations}, rs2 \in {reservations'} : C8_Step(rs, rs2, op')]_vars

\* a cancelled reservation is still recorded although its hotel and its
\* customer have been deleted and a later write has taken place
C8_Witness ==
    /\ saved
    /\ op.name = "create_hotel"
    /\ \E i \in 1..Len(reservations) :
           /\ reservations[i].status = "cancelled"
           /\ HotelsWithId(hotels, reservations[i].hotel_id) = {}
           /\ CustomersWithId(customers, reservations[i].customer_id) = {}

(***************************************************************************)
(* C9.  Cancelling an unknown reservation.                                 *)
(***************************************************************************)
\* C9: cancel_reservation with an identifier that matches no stored reservation
\* returns False, leaves the three collections as they were and writes nothing.
C9_CancelUnknown ==
    [][(op'.name = "cancel_reservation"
        /\ ReservationsWithId(reservations, op'.id) = {})
          => /\ result' = Bool(FALSE)
             /\ UNCHANGED files
             /\ ~saved']_vars

\* an unknown identifier was just refused while reservations are stored
C9_Witness ==
    /\ op.name = "cancel_reservation"
    /\ result = Bool(FALSE)
    /\ ~saved
    /\ ReservationsWithId(reservations, op.id) = {}
    /\ Len(reservations) = 2

(***************************************************************************)
(* C10.  Available rooms.                                                  *)
(***************************************************************************)
\* the text hotel_info returns for a hotel with the given available rooms
InfoText(h, available) ==
    "Hotel '" \o h.name \o "' in " \o h.city \o " -- total: "
        \o IntToStr(h.total_rooms) \o ", available: " \o IntToStr(available)

\* the rooms the operation o with return value res took from (positive) or gave
\* back to (negative) the hotel with the given identifier, the reservations
\* being rs before it
C10_Taken(id, rs, o, res) ==
    IF o.name = "create_reservation" /\ res.kind = "object" /\ o.hotel_id = id
    THEN o.rooms
    ELSE IF o.name = "cancel_reservation"
    THEN -RoomsOf(rs, ReservationsWithId(rs, o.id) \cap ActiveOf(rs, id))
    ELSE 0

\* every hotel that the step leaves as it is has as many rooms more or less
\* available as the operation took or gave back
C10_Step(hs, rs, hs2, rs2, o, res) ==
    \A i \in 1..Len(hs), j \in 1..Len(hs2) :
        hs[i] = hs2[j]
           => Available(hs2[j], rs2)
                  = Available(hs[i], rs) - C10_Taken(hs[i].hotel_id, rs, o, res)

\* C10: the available rooms hotel_info reports for a stored hotel, and the ones
\* create_reservation compares the request with, are total_rooms minus the rooms
\* of the hotel's active reservations; for a hotel whose total_rooms is not
\* changed they decrease by k with a successful reservation of k of its rooms,
\* increase by k with the cancellation of an active reservation of k of its
\* rooms, and are changed by nothing else: not by cancelling a cancelled
\* reservation, nor by reservations of other hotels.
C10_AvailableRooms ==
    [][/\ (op'.name = "hotel_info" /\ HotelsWithId(hotels, op'.id) # {})
             => LET h == hotels[Min(HotelsWithId(hotels, op'.id))]
                IN result' = Object(InfoText(h, Available(h, reservations)))
       /\ (op'.name = "create_reservation" /\ C2_Call /\ op'.rooms > 0)
             => (result' = None <=> op'.rooms > C2_Available)
       /\ \A hs \in {hotels}, rs \in {reservations},
             hs2 \in {hotels'}, rs2 \in {reservations'} :
                C10_Step(hs, rs, hs2, rs2, op', result')
      ]_vars

\* hotel_info was just asked about a hotel that has an active and a cancelled
\* reservation
C10_Witness ==
    /\ op.name = "hotel_info"
    /\ result.kind = "object"
    /\ ActiveRefHotel(reservations, op.id)
    /\ \E i \in 1..Len(reservations) :
           reservations[i].hotel_id = op.id /\ reservations[i].status = "cancelled"

(***************************************************************************)
(* C11.  Stored hotels have a positive room count.                         *)
(***************************************************************************)
\* C11: in every state reached from the empty store by service operations,
\* every stored hotel has total_rooms > 0.
C11_PositiveRooms == \A i \in 1..Len(hotels) : hotels[i].total_rooms > 0

\* modify_hotel was just refused a room count of zero for a stored hotel, which
\* keeps the room count it had
C11_Witness ==
    /\ op.name = "modify_hotel"
    /\ op.total_rooms = <<0>>
    /\ result = Bool(FALSE)
    /\ ~saved
    /\ \E i \in HotelsWithId(hotels, op.id) : hotels[i].total_rooms = MaxRooms

(***************************************************************************)
(* C12.  Invalid arguments.                                                *)
(***************************************************************************)
\* the call is create_hotel or create_reservation with a room count <= 0
C12_InvalidHotelCall == op'.name = "create_hotel" /\ op'.total_rooms <= 0

C12_InvalidReservationCall == op'.name = "create_reservation" /\ op'.rooms <= 0

\* C12 as claimed: a room count <= 0 passed to create_hotel or to
\* create_reservation is raised to the caller as an error, and the persisted
\* state is unchanged.
C12_HardFailure ==
    [][(C12_InvalidHotelCall \/ C12_InvalidReservationCall)
          => result'.kind = "raise" /\ UNCHANGED files]_vars

\* C12 as amended: a room count <= 0 passed to create_hotel is raised to the
\* caller as a ValueError; passed to create_reservation it is reported by the
\* return value None and the logged line 'rooms must be > 0', and nothing is
\* raised.  Both happen before any collection is read: nothing that the loads
\* log is logged and no error of a load is raised, whatever the files hold; and
\* nothing is written.
C12_InvalidArgument ==
    [][/\ C12_InvalidHotelCall
             => /\ result' = Raise("ValueError: total_rooms must be > 0")
                /\ log' = <<>>
                /\ UNCHANGED files
                /\ ~saved'
       /\ C12_InvalidReservationCall
             => /\ result' = None
                /\ log' = <<"rooms must be > 0">>
                /\ UNCHANGED files
                /\ ~saved']_vars

\* create_reservation was just refused a request for no rooms on a store none of
\* whose three files can be loaded without a logged line or an error
C12_Witness ==
    /\ op.name = "create_reservation"
    /\ op.rooms = 0
    /\ result = None
    /\ load_hotels_log(hotelsFile) # <<>>
    /\ load_customers_log(customersFile) # <<>>
    /\ load_reservations_raises(reservationsFile)

(***************************************************************************)
(* C13.  Lost update under concurrency.                                    *)
(***************************************************************************)
\* caller c returns from its operation in this step
C13_Returns(c) == calls[c].pc = "loaded" /\ calls'[c].pc = "returned"

\* C13, the mechanism: an operation of a concurrent caller that reports success
\* leaves as the persisted state the three lists it loaded with its own new
\* record appended; so whatever another caller saved between the load and the
\* save of this operation is overwritten.  (create_hotel and create_customer
\* always report success; create_reservation may return None, and then it
\* writes nothing.)
C13_LaterSaveWins ==
    [][\A c \in Callers :
          C13_Returns(c)
             => \A own \in {IF calls'[c].result.kind = "object"
                             THEN calls'[c].result.val ELSE <<>>} :
                   /\ calls[c].request.name \in {"create_hotel", "create_customer"}
                          => own # <<>>
                   /\ own = <<>> => UNCHANGED files
                   /\ own # <<>>
                          => /\ hotels' = calls[c].hotels
                                   \o (IF calls[c].request.name = "create_hotel"
                                       THEN own ELSE <<>>)
                             /\ customers' = calls[c].customers
                                   \o (IF calls[c].request.name = "create_customer"
                                       THEN own ELSE <<>>)
                             /\ reservations' = calls[c].reservations
                                   \o (IF calls[c].request.name = "create_reservation"
                                       THEN own ELSE <<>>)]_vars

\* C13, the interleaving: both callers loaded the same state, both operations
\* returned a record, the customer that one of them created is persisted and the
\* hotel that the other created is not
C13_Witness ==
    \E c \in Callers : \E d \in Callers \ {c} :
        /\ calls[c].pc = "returned" /\ calls[d].pc = "returned"
        /\ calls[c].result.kind = "object" /\ calls[d].result.kind = "object"
        /\ held(c) = held(d)
        /\ calls[c].request.name = "create_hotel"
        /\ calls[d].request.name = "create_customer"
        /\ calls[c].result.val[1] \notin Range(hotels)
        /\ calls[d].result.val[1] \in Range(customers)

(***************************************************************************)
(* C14.  Self-healing of malformed records.                                *)
(***************************************************************************)
\* a JSON value that is an integer, or a string that holds one
IsIntegerValue(v) ==
    \/ v.t = "int"
    \/ v.t = "str" /\ v.s \in {IntToStr(i) : i \in ParseRange}

\* the rows that are records of the collection: they have its fields, and an
\* integer where a room count belongs.  Every other row is malformed.
WellFormedHotelRow(row) ==
    /\ {"hotel_id", "name", "city", "total_rooms"} \subseteq DOMAIN row
    /\ IsIntegerValue(row.total_rooms)

WellFormedCustomerRow(row) == {"customer_id", "name", "email"} \subseteq DOMAIN row

WellFormedReservationRow(row) ==
    /\ {"reservation_id", "hotel_id", "customer_id", "rooms"} \subseteq DOMAIN row
    /\ IsIntegerValue(row.rooms)

\* the malformed rows a file holds
MalformedRows(file, WellFormed(_)) ==
    {file.rows[i] : i \in {k \in 1..Len(file.rows) : ~WellFormed(file.rows[k])}}

\* the malformed rows the three files hold
C14_Malformed ==
    <<MalformedRows(hotelsFile, WellFormedHotelRow),
      MalformedRows(customersFile, WellFormedCustomerRow),
      MalformedRows(reservationsFile, WellFormedReservationRow)>>

\* each load of an operation returns one record for each well-formed row of
\* its array, in the order of the rows, and fails on none
C14_SkippedAtLoad ==
    /\ (/\ op'.name \in {"delete_hotel", "modify_hotel", "create_customer",
                         "delete_customer", "modify_customer", "cancel_reservation",
                         "hotel_info"}
        /\ \A k \in 1..3 : ~_load_raw_raises(files[k]))
          => result'.kind # "raise"
    /\ LET rows == SelectSeq(_load_raw(hotelsFile), WellFormedHotelRow)
       IN /\ Len(hotels) = Len(rows)
          /\ \A i \in 1..Len(rows) : hotels[i].hotel_id = PyStr(rows[i].hotel_id)
    /\ LET rows == SelectSeq(_load_raw(customersFile), WellFormedCustomerRow)
       IN /\ Len(customers) = Len(rows)
          /\ \A i \in 1..Len(rows) : customers[i].customer_id = PyStr(rows[i].customer_id)
    /\ LET rows == SelectSeq(_load_raw(reservationsFile), WellFormedReservationRow)
       IN /\ Len(reservations) = Len(rows)
          /\ \A i \in 1..Len(rows) :
                 reservations[i].reservation_id = PyStr(rows[i].reservation_id)

\* after an operation that saved, no file holds a malformed row; and no step
\* brings a malformed row into a file
C14_Healed ==
    /\ saved' => C14_Malformed' = <<{}, {}, {}>>
    /\ \A k \in 1..3 : C14_Malformed'[k] \subseteq C14_Malformed[k]

\* C14 as claimed: a malformed record is skipped individually at load, the other
\* records of its collection being loaded in order; after the next successful
\* mutating operation none of the three collections holds a malformed record;
\* and a dropped record never reappears.
C14_SelfHealing == [][C14_SkippedAtLoad /\ C14_Healed]_vars

\* a row whose room count is a number beyond the float range
C14_HasInfRows ==
    \/ \E i \in 1..Len(hotelsFile.rows) :
           "total_rooms" \in DOMAIN hotelsFile.rows[i] /\ hotelsFile.rows[i].total_rooms = JInf
    \/ \E i \in 1..Len(reservationsFile.rows) :
           "rooms" \in DOMAIN reservationsFile.rows[i] /\ reservationsFile.rows[i].rooms = JInf

\* what holds of C14: the same, on every store none of whose rows has a room
\* count beyond the float range (C14_SelfHealing fails on no other store)
C14_SelfHealingOfCaughtErrors ==
    [][~C14_HasInfRows => (C14_SkippedAtLoad /\ C14_Healed)]_vars

(***************************************************************************)
(* C15.  Loading never fails the caller.                                   *)
(***************************************************************************)
\* the loads of the files of the given kinds return the empty list and raise
\* nothing
C15_LoadsEmpty(Kinds) ==
    /\ hotelsFile.kind \in Kinds
          => ~load_hotels_raises(hotelsFile) /\ hotels = <<>>
    /\ customersFile.kind \in Kinds
          => ~load_customers_raises(customersFile) /\ customers = <<>>
    /\ reservationsFile.kind \in Kinds
          => ~load_reservations_raises(reservationsFile) /\ reservations = <<>>

\* the step is what the operation does when no hotel is stored
C15_NoHotels ==
    /\ op'.name \in {"delete_hotel", "modify_hotel"}
          => result' = Bool(FALSE) /\ UNCHANGED files
    /\ op'.name \in {"hotel_info", "create_reservation"}
          => result' = None /\ UNCHANGED files
    /\ (op'.name = "create_hotel" /\ op'.total_rooms > 0)
          => result'.kind = "object" /\ hotels' = <<result'.val[1]>>
    /\ (saved' /\ op'.name # "create_hotel") => hotelsFile' = _save_raw(<<>>)
    /\ op'.name = "save_hotels(load_hotels())"
          => result' = None /\ hotelsFile' = _save_raw(<<>>)

\* the step is what the operation does when no customer is stored
C15_NoCustomers ==
    /\ op'.name \in {"delete_customer", "modify_customer"}
          => result' = Bool(FALSE) /\ UNCHANGED files
    /\ op'.name \in {"customer_info", "create_reservation"}
          => result' = None /\ UNCHANGED files
    /\ op'.name = "create_customer"
          => result'.kind = "object" /\ customers' = <<result'.val[1]>>
    /\ (saved' /\ op'.name # "create_customer") => customersFile' = _save_raw(<<>>)
    /\ op'.name = "save_customers(load_customers())"
          => result' = None /\ customersFile' = _save_raw(<<>>)

\* the step is what the operation does when no reservation is stored
C15_NoReservations ==
    /\ op'.name = "cancel_reservation" => result' = Bool(FALSE) /\ UNCHANGED files
    /\ (op'.name = "delete_hotel" /\ HotelsWithId(hotels, op'.id) # {})
          => result' = Bool(TRUE)
    /\ (op'.name = "delete_customer" /\ CustomersWithId(customers, op'.id) # {})
          => result' = Bool(TRUE)
    /\ (op'.name = "hotel_info" /\ HotelsWithId(hotels, op'.id) # {})
          => LET h == hotels[Min(HotelsWithId(hotels, op'.id))]
             IN result' = Object(InfoText(h, h.total_rooms))
    /\ (/\ op'.name = "create_reservation"
        /\ CustomersWithId(customers, op'.customer_id) # {}
        /\ \E i \in HotelsWithId(hotels, op'.hotel_id) :
               0 < op'.rooms /\ op'.rooms <= hotels[i].total_rooms)
          => result'.kind = "object" /\ reservations' = <<result'.val[1]>>
    /\ (saved' /\ op'.name # "create_reservation") => reservationsFile' = _save_raw(<<>>)
    /\ op'.name = "save_reservations(load_reservations())"
          => result' = None /\ reservationsFile' = _save_raw(<<>>)

\* what C15 says of a step, for the files of the given kinds: their loads
\* return the empty list, and an operation whose other loads succeed does what
\* it does on an empty collection
C15_Step(Kinds) ==
    /\ C15_LoadsEmpty(Kinds)
    /\ (/\ hotelsFile.kind \in Kinds
        /\ ~load_customers_raises(customersFile)
        /\ ~load_reservations_raises(reservationsFile)) => C15_NoHotels
    /\ (/\ customersFile.kind \in Kinds
        /\ ~load_hotels_raises(hotelsFile)
        /\ ~load_reservations_raises(reservationsFile)) => C15_NoCustomers
    /\ (/\ reservationsFile.kind \in Kinds
        /\ ~load_hotels_raises(hotelsFile)
        /\ ~load_customers_raises(customersFile)) => C15_NoReservations

\* C15 as claimed: if a file is absent, holds no valid JSON (text that does not
\* parse, or bytes that are no text at all) or holds JSON other than an array,
\* its load returns the empty list and raises nothing, and the operations go on
\* as with an empty collection.
C15_LoadNeverFails ==
    [][C15_Step({"absent", "invalid", "undecodable", "object"})]_vars

\* what holds of C15: the same for a file that is absent, holds text that does
\* not parse as JSON, or holds JSON other than an array
C15_LoadOfTextNeverFails == [][C15_Step({"absent", "invalid", "object"})]_vars

(***************************************************************************)
(* C16.  Round trip: save(load()).                                         *)
(***************************************************************************)
\* a JSON string, a JSON integer
IsJStr(v) == v = JStr(v.s)

IsJInt(v) == v = JInt(v.i)

\* the rows as to_dict writes them: the fields of the record and no other,
\* strings in the string fields and an integer in the room count
WrittenHotelRow(row) ==
    /\ DOMAIN row = {"hotel_id", "name", "city", "total_rooms"}
    /\ IsJStr(row.hotel_id) /\ IsJStr(row.name) /\ IsJStr(row.city)
    /\ IsJInt(row.total_rooms)

WrittenCustomerRow(row) ==
    /\ DOMAIN row = {"customer_id", "name", "email"}
    /\ IsJStr(row.customer_id) /\ IsJStr(row.name) /\ IsJStr(row.email)

WrittenReservationRow(row) ==
    /\ DOMAIN row = {"reservation_id", "hotel_id", "customer_id", "rooms", "status"}
    /\ IsJStr(row.reservation_id) /\ IsJStr(row.hotel_id) /\ IsJStr(row.customer_id)
    /\ IsJInt(row.rooms) /\ IsJStr(row.status)

\* an array of such rows
Written(file, WrittenRow(_)) ==
    /\ file.kind = "array"
    /\ \A i \in 1..Len(file.rows) : WrittenRow(file.rows[i])

\* the step saves the list that it has just loaded from the k-th file
C16_Resaves(k) ==
    /\ op'.name = <<"save_hotels(load_hotels())", "save_customers(load_customers())",
                    "save_reservations(load_reservations())">>[k]
    /\ result' = None

\* C16 as claimed, for arrays alone: saving the list just loaded from a file
\* that holds an array leaves the file as it was.
C16_FixedPointOfEveryArray ==
    [][\A k \in 1..3 : (C16_Resaves(k) /\ files[k].kind = "array") => files'[k] = files[k]]_vars

\* C16 as amended: saving the list just loaded leaves the file as it was if
\* the file holds what a save writes: an array of rows with the fields of the
\* record, strings in the string fields and an integer room count.  Any other
\* content that loads is replaced by content of that form, which the next
\* save(load()) then leaves as it is.
C16_FixedPointOfWritten ==
    [][/\ C16_Resaves(1)
             => /\ Written(hotelsFile', WrittenHotelRow)
                /\ Written(hotelsFile, WrittenHotelRow) => hotelsFile' = hotelsFile
       /\ C16_Resaves(2)
             => /\ Written(customersFile', WrittenCustomerRow)
                /\ Written(customersFile, WrittenCustomerRow)
                      => customersFile' = customersFile
       /\ C16_Resaves(3)
             => /\ Written(reservationsFile', WrittenReservationRow)
                /\ Written(reservationsFile, WrittenReservationRow)
                      => reservationsFile' = reservationsFile]_vars

\* the list of two hotels just loaded, without a logged line, was saved: the
\* file held two rows written by earlier saves
C16_Witness ==
    /\ op.name = "save_hotels(load_hotels())"
    /\ result = None
    /\ log = <<>>
    /\ Len(hotelsFile.rows) = 2
    /\ \E i \in 1..Len(reservations) : reservations[i].status = "cancelled"

(***************************************************************************)
(* C17.  Frame of modify.                                                  *)
(***************************************************************************)
\* the value of a field after a modify: the supplied value without the
\* surrounding blanks, or the previous value if none was supplied
C17_Field(old, new) == IF new = <<>> THEN old ELSE strip(new[1])

\* what C17 says of a modify_hotel step from the hotels hs to the hotels hs2
C17_HotelStep(hs, hs2, o) ==
    IF \/ HotelsWithId(hs, o.id) = {}
       \/ o.total_rooms # <<>> /\ o.total_rooms[1] <= 0
    THEN result' = Bool(FALSE) /\ UNCHANGED files /\ ~saved'
    ELSE /\ result' = Bool(TRUE)
         /\ Len(hs2) = Len(hs)
         /\ \A i \in 1..Len(hs) :
                IF hs[i].hotel_id = o.id
                THEN hs2[i] = Hotel(o.id, C17_Field(hs[i].name, o.new_name),
                                    C17_Field(hs[i].city, o.new_city),
                                    IF o.total_rooms = <<>> THEN hs[i].total_rooms
                                    ELSE o.total_rooms[1])
                ELSE hs2[i] = hs[i]
         /\ customers' = customers
         /\ reservations' = reservations

\* what C17 says of a modify_customer step from the customers cs to cs2
C17_CustomerStep(cs, cs2, o) ==
    IF CustomersWithId(cs, o.id) = {}
    THEN result' = Bool(FALSE) /\ UNCHANGED files /\ ~saved'
    ELSE /\ result' = Bool(TRUE)
         /\ Len(cs2) = Len(cs)
         /\ \A i \in 1..Len(cs) :
                IF cs[i].customer_id = o.id
                THEN cs2[i] = Customer(o.id, C17_Field(cs[i].name, o.new_name),
                                       C17_Field(cs[i].email, o.new_email))
                ELSE cs2[i] = cs[i]
         /\ hotels' = hotels
         /\ reservations' = reservations

\* C17: a successful modify_hotel / modify_customer puts in the place of the
\* record with the given identifier a record with that identifier whose
\* supplied fields have the supplied values and whose other fields are as they
\* were; every other hotel, customer and reservation is unchanged.  A modify
\* with an unknown identifier, or with total_rooms <= 0 supplied, returns False
\* and writes nothing.
C17_ModifyFrame ==
    [][/\ op'.name = "modify_hotel"
             => \A hs \in {hotels}, hs2 \in {hotels'} : C17_HotelStep(hs, hs2, op')
       /\ op'.name = "modify_customer"
             => \A cs \in {customers}, cs2 \in {customers'} :
                    C17_CustomerStep(cs, cs2, op')]_vars

\* the name of the first of two hotels was just changed, its city and rooms
\* being left out, while a reservation of it is recorded
C17_Witness ==
    /\ op.name = "modify_hotel"
    /\ result = Bool(TRUE)
    /\ op.new_name # <<>> /\ op.new_city = <<>> /\ op.total_rooms = <<>>
    /\ Len(hotels) = 2
    /\ hotels[1] = Hotel(op.id, "Hotel Sol", "Monterrey", MaxRooms)
    /\ \E i \in 1..Len(reservations) : reservations[i].hotel_id = op.id

(***************************************************************************)
(* C18.  modify_hotel accepts every positive room count.                   *)
(***************************************************************************)
\* C18: modify_hotel(id, total_rooms=n) with the id of a stored hotel and
\* n > 0 returns True and persists n as the hotel's total_rooms, however many
\* rooms the hotel's active reservations hold.
C18_PositiveAccepted ==
    [][\A hs \in {hotels}, hs2 \in {hotels'} :
          (/\ op'.name = "modify_hotel"
           /\ op'.total_rooms # <<>>
           /\ HotelsWithId(hs, op'.id) # {}
           /\ op'.total_rooms[1] > 0)
              => /\ result' = Bool(TRUE)
                 /\ saved'
                 /\ Len(hs2) = Len(hs)
                 /\ \A i \in HotelsWithId(hs, op'.id) :
                        hs2[i].total_rooms = op'.total_rooms[1]]_vars

\* a hotel whose active reservations hold more than one room was just given
\* a total of one room
C18_Witness ==
    /\ op.name = "modify_hotel"
    /\ op.total_rooms = <<1>>
    /\ result = Bool(TRUE)
    /\ \E i \in HotelsWithId(hotels, op.id) :
           /\ hotels[i].total_rooms = 1
           /\ UsedRooms(reservations, op.id) > 1

(***************************************************************************)
(* C19.  Referential integrity of active reservations.                     *)
(***************************************************************************)
\* C19: in every state a single caller reaches from an empty store, every
\* active reservation names a stored hotel and a stored customer.
C19_ActiveReferencesStored ==
    \A hs \in {hotels}, cs \in {customers}, rs \in {reservations} :
        \A i \in 1..Len(rs) :
            rs[i].status = "active"
                => /\ HotelsWithId(hs, rs[i].hotel_id) # {}
                   /\ CustomersWithId(cs, rs[i].customer_id) # {}

\* an active reservation is stored next to a cancelled one whose hotel has
\* been deleted
C19_Witness ==
    /\ \E i \in 1..Len(reservations) : reservations[i].status = "active"
    /\ \E i \in 1..Len(reservations) :
           /\ reservations[i].status = "cancelled"
           /\ HotelsWithId(hotels, reservations[i].hotel_id) = {}

(***************************************************************************)
(* C20.  Every operation changes one collection at most.                   *)
(***************************************************************************)
\* the records of the three collections that the files fs hold
C20_Content(fs) == <<load_hotels(fs[1]), load_customers(fs[2]), load_reservations(fs[3])>>

\* the collections an operation may change
C20_MayChange(name) ==
    CASE name \in {"create_hotel", "delete_hotel", "modify_hotel"} -> {1}
      [] name \in {"create_customer", "delete_customer", "modify_customer"} -> {2}
      [] name \in {"create_reservation", "cancel_reservation"} -> {3}
      [] name \in {"hotel_info", "customer_info"} -> {}
      [] OTHER -> 1..3

\* the files as _save_all leaves them when it is stopped after its first
\* save, and after its second
C20_Interrupted ==
    {<<hotelsFile', customersFile, reservationsFile>>,
     <<hotelsFile', customersFile', reservationsFile>>}

C21_PersistedWithinCapacity ==
    \A hs \in {hotels}, rs \in {reservations} :
        \A i \in 1..Len(hs) : UsedRooms(rs, hs[i].hotel_id) <= hs[i].total_rooms

\* the create_reservation call of caller c has returned a reservation
C21_Returned(c) ==
    /\ calls[c].pc = "returned"
    /\ calls[c].request.name = "create_reservation"
    /\ calls[c].result.kind = "object"

\* the reservations two calls have returned for one hotel hold together no
\* more rooms than the hotel has
C21_ReturnedWithinCapacity ==
    \A c \in Callers : \A d \in Callers \ {c} :
        (/\ C21_Returned(c)
         /\ C21_Returned(d)
         /\ calls[c].request.hotel_id = calls[d].request.hotel_id)
            => \A i \in HotelsWithId(hotels, calls[c].request.hotel_id) :
                   calls[c].request.rooms + calls[d].request.rooms
                       <= hotels[i].total_rooms

\* C21 as claimed: with two callers that run create_reservation as a load
\* step and a save step, no interleaving persists more active rooms of a hotel
\* than its total_rooms, and no two calls that both return a reservation
\* exceed together the capacity of the hotel.
C21_NoOverbookingRace ==
    /\ C21_PersistedWithinCapacity
    /\ C21_ReturnedWithinCapacity

\* C21 as amended: with two callers that run create_hotel, create_customer and
\* create_reservation as a load step and a save step, no interleaving persists
\* more active rooms of a stored hotel than its total_rooms.  (Two calls may
\* both return a reservation of rooms the hotel does not have: the later save
\* discards the reservation saved first.)
C21_NoPersistedOverbooking == [](C21_PersistedWithinCapacity)

\* both callers hold a returned reservation of all the rooms of one hotel, and
\* the reservation of one of them only is persisted
C21_Witness ==
    \E c \in Callers : \E d \in Callers \ {c} :
        /\ C21_Returned(c)
        /\ C21_Returned(d)
        /\ calls[c].request.hotel_id = calls[d].request.hotel_id
        /\ calls[c].request.rooms = MaxRooms
        /\ calls[d].request.rooms = MaxRooms
        /\ \E i \in HotelsWithId(hotels, calls[c].request.hotel_id) :
               hotels[i].total_rooms = MaxRooms
        /\ ReservationsWithId(reservations, calls[c].result.val[1].reservation_id) = {}
        /\ ReservationsWithId(reservations, calls[d].result.val[1].reservation_id) # {}

====
